---- MODULE Spec2Model ----
(***************************************************************************)
(* GoalGrid lesson/task agents.                                            *)
(*                                                                         *)
(* Two programs live in the repository and use different collections of    *)
(* the document store:                                                     *)
(*   - goalgrid_agent.py: GoalGridAgent over users/<uid>/dated_courses,    *)
(*     documents of the shape {"content": {joined_date, lessons_by_date}}; *)
(*   - app.py: GoalGridAgent over users/<uid>/datedcourses, documents of   *)
(*     the shape {lessons_by_date}, one fresh agent per HTTP request.      *)
(* One user is modelled.  Every store round trip is one atomic step; the   *)
(* oracle (chat completion) answer is an input of the step that receives   *)
(* it.                                                                     *)
(***************************************************************************)
EXTENDS Integers, Sequences, FiniteSets, TLC

VARIABLES
    today,              \* datetime.now().date().isoformat()
    requests,           \* how many handler calls have been issued
    dated_courses,      \* goalgrid_agent.py: documents in creation order
    active_course_doc,  \* goalgrid_agent.py: per agent, index of its document (0: None)
    lesson_obj,         \* goalgrid_agent.py: the Lesson object the calling code holds
    pc,                 \* goalgrid_agent.py: per agent, position in its handler
    frame,              \* goalgrid_agent.py: per agent, the handler's locals
    ret,                \* goalgrid_agent.py: per agent, what its call is returning
    datedcourses,       \* app.py: documents in stream order
    app_pc,             \* app.py: per request, position in its handler
    app_frame,          \* app.py: per request, the handler's locals
    app_ret             \* app.py: per request, what the call returned

vars == <<today, requests, dated_courses, active_course_doc, lesson_obj, pc, frame, ret,
          datedcourses, app_pc, app_frame, app_ret>>
agent_vars == <<dated_courses, active_course_doc, lesson_obj, pc, frame, ret>>
app_vars == <<datedcourses, app_pc, app_frame, app_ret>>

(***************************************************************************)
(* Input domains.                                                          *)
(***************************************************************************)
Agents == {"a1", "a2"}
Requests == {"r1", "r2"}
Dates == {"2024-06-01", "2024-06-02"}
FirstDay == "2024-06-01"
NextDay(d) == IF d = "2024-06-01" THEN "2024-06-02" ELSE d
\* The longest task list a caller lets a Lesson object grow to.
MaxTasks == 2
\* How many documents the datedcourses collection of app.py holds.
MaxDocs == 2
\* How many handler calls overlapping callers issue.
MaxRequests == 3

(***************************************************************************)
(* Python values.                                                          *)
(***************************************************************************)
None == [none |-> TRUE]
EmptyDict == [k \in {} |-> None]
DictGet(d, k, default) == IF k \in DOMAIN d THEN d[k] ELSE default
DictSet(d, k, v) == [x \in DOMAIN d \cup {k} |-> IF x = k THEN v ELSE d[x]]
\* dict.update(other)
DictUpdate(d, other) ==
    [x \in DOMAIN d \cup DOMAIN other |-> IF x \in DOMAIN other THEN other[x] ELSE d[x]]

Digits == <<"0", "1", "2", "3", "4", "5", "6", "7", "8", "9">>
RECURSIVE ToStr(_)
\* str(n) inside an f-string
ToStr(n) == IF n < 10 THEN Digits[n + 1] ELSE ToStr(n \div 10) \o Digits[(n % 10) + 1]

(***************************************************************************)
(* Oracle text.  A completion is a sequence of tokens: the code fence     *)
(* (three backquotes), the word "json", white space " " and payload       *)
(* chunks.                                                                 *)
(***************************************************************************)
\* The token that stands for the three-backquote fence.
Fence == "<fence>"
IsPrefix(p, s) == Len(p) <= Len(s) /\ SubSeq(s, 1, Len(p)) = p

RECURSIVE Split(_, _)
\* str.split(sep)
Split(s, sep) ==
    LET hits == {i \in 1..(Len(s) - Len(sep) + 1) : SubSeq(s, i, i + Len(sep) - 1) = sep}
    IN  IF hits = {} THEN <<s>>
        ELSE LET i == CHOOSE h \in hits : \A g \in hits : h <= g
             IN  <<SubSeq(s, 1, i - 1)>> \o Split(SubSeq(s, i + Len(sep), Len(s)), sep)

RECURSIVE LStrip(_)
LStrip(s) == IF s # <<>> /\ Head(s) = " " THEN LStrip(Tail(s)) ELSE s
RECURSIVE RStrip(_)
RStrip(s) == IF s # <<>> /\ s[Len(s)] = " " THEN RStrip(SubSeq(s, 1, Len(s) - 1)) ELSE s
\* str.strip()
Strip(s) == RStrip(LStrip(s))

\* The fence stripping every handler applies before json.loads.
StripFences(raw) ==
    LET content == Strip(raw)
    IN  IF IsPrefix(<<Fence, "json">>, content)
        THEN Strip(Split(Split(content, <<Fence, "json">>)[2], <<Fence>>)[1])
        ELSE IF IsPrefix(<<Fence>>, content)
        THEN Strip(Split(Split(content, <<Fence>>)[2], <<Fence>>)[1])
        ELSE content

(***************************************************************************)
(* JSON.  A parsed value is [kind, obj, arr]: obj the members of an        *)
(* object, arr the items of an array (each again a value with no arr).     *)
(***************************************************************************)
JObject(members) == [kind |-> "object", obj |-> members, arr |-> <<>>]
JArray(items) == [kind |-> "array", obj |-> EmptyDict, arr |-> items]
JString(s) == [kind |-> "string", obj |-> [k \in {"value"} |-> s], arr |-> <<>>]
JNull == [kind |-> "null", obj |-> EmptyDict, arr |-> <<>>]

ContentKeys == {"title", "lesson", "summary", "motivation", "quote",
                "secret_hacks_and_shortcuts", "tiny_daily_rituals_that_transform",
                "visual_infographic_html"}

FocusLesson ==
    [title |-> "Focus", lesson |-> "...", summary |-> "S", motivation |-> "M",
     quote |-> "Q", secret_hacks_and_shortcuts |-> "H",
     tiny_daily_rituals_that_transform |-> "R", visual_infographic_html |-> "<div/>"]

\* The JSON documents the oracle is given to answer with, by their text.
JsonDocuments ==
    [t \in {"{lesson Focus}", "{\"title\":\"Focus\"}", "{}", "[]", "null", "\"\"",
            "[{\"title\":\"Easy A\",\"description\":\"do X\"}]",
            "[{\"title\":\"Easy A\",\"description\":\"do X\"},{\"description\":\"do Y\"}]",
            "[\"do X\"]"} |->
        CASE t = "{lesson Focus}" -> JObject(FocusLesson)
          [] t = "{\"title\":\"Focus\"}" -> JObject([title |-> "Focus"])
          [] t = "{}" -> JObject(EmptyDict)
          [] t = "[]" -> JArray(<<>>)
          [] t = "null" -> JNull
          [] t = "\"\"" -> JString("")
          [] t = "[{\"title\":\"Easy A\",\"description\":\"do X\"}]" ->
                JArray(<<JObject([title |-> "Easy A", description |-> "do X"])>>)
          [] t = "[{\"title\":\"Easy A\",\"description\":\"do X\"},{\"description\":\"do Y\"}]" ->
                JArray(<<JObject([title |-> "Easy A", description |-> "do X"]),
                         JObject([description |-> "do Y"])>>)
          [] t = "[\"do X\"]" -> JArray(<<JString("do X")>>)]

\* json.loads: [ok, value]; ok = FALSE stands for the JSONDecodeError.
JsonLoads(text) ==
    IF Len(text) = 1 /\ text[1] \in DOMAIN JsonDocuments
    THEN [ok |-> TRUE, value |-> JsonDocuments[text[1]]]
    ELSE [ok |-> FALSE, value |-> JNull]

\* A chat completion: the call raised, or it returned this text.
Raised == [raised |-> TRUE, content |-> <<>>]
Completion(tokens) == [raised |-> FALSE, content |-> tokens]
NoResponse == [raised |-> FALSE, content |-> <<"(none)">>]

LessonResponses ==
    {Raised,
     Completion(<<"Sure, here is your lesson">>),
     Completion(<<Fence, "garbage", Fence>>),
     Completion(<<Fence, "json", " ", "{lesson Focus}", " ", Fence>>),
     Completion(<<"{\"title\":\"Focus\"}">>),
     Completion(<<"[]">>)}

TaskResponses ==
    {Raised,
     Completion(<<"not json">>),
     Completion(<<Fence, "json", " ", "[{\"title\":\"Easy A\",\"description\":\"do X\"},{\"description\":\"do Y\"}]", " ", Fence>>),
     Completion(<<"[]">>),
     Completion(<<"{}">>),
     Completion(<<"{\"title\":\"Focus\"}">>),
     Completion(<<"null">>),
     Completion(<<"[\"do X\"]">>)}

(***************************************************************************)
(* goalgrid_agent.py: data models.                                         *)
(***************************************************************************)
\* Task.__init__
Task(title, description) ==
    [done |-> FALSE, task |-> [task |-> description], title |-> title]
\* Task.to_dict: the title is not part of the stored form.
TaskToDict(t) == [done |-> t.done, task |-> t.task]

\* Lesson.__init__: content is a dict holding every content key.
Lesson(date, content, tasks) ==
    [date |-> date,
     title |-> content["title"],
     lesson |-> content["lesson"],
     summary |-> content["summary"],
     motivation |-> content["motivation"],
     quote |-> content["quote"],
     secret_hacks_and_shortcuts |-> content["secret_hacks_and_shortcuts"],
     tiny_daily_rituals_that_transform |-> content["tiny_daily_rituals_that_transform"],
     visual_infographic_html |-> content["visual_infographic_html"],
     tasks |-> IF tasks # <<>> THEN [i \in 1..Len(tasks) |-> TaskToDict(tasks[i])] ELSE <<>>]

\* Lesson.to_dict
LessonToDict(l) ==
    [title |-> l.title,
     lesson |-> l.lesson,
     summary |-> l.summary,
     motivation |-> l.motivation,
     quote |-> l.quote,
     secret_hacks_and_shortcuts |-> l.secret_hacks_and_shortcuts,
     tiny_daily_rituals_that_transform |-> l.tiny_daily_rituals_that_transform,
     visual_infographic_html |-> l.visual_infographic_html,
     tasks |-> l.tasks]

\* The dict generate_personalized_content returns from its except branch.
FallbackContent ==
    [title |-> "Sample Lesson",
     lesson |-> "This is a sample lesson content.",
     summary |-> "Sample summary.",
     motivation |-> "Keep going!",
     quote |-> "Consistency is key.",
     secret_hacks_and_shortcuts |-> "Start small.",
     tiny_daily_rituals_that_transform |-> "Take 5 minutes daily.",
     visual_infographic_html |-> "<div>Sample Infographic</div>"]

\* generate_personalized_content: whatever json.loads gives, or the fallback.
generate_personalized_content(resp) ==
    IF resp.raised THEN JObject(FallbackContent)
    ELSE LET parsed == JsonLoads(StripFences(resp.content))
         IN  IF parsed.ok THEN parsed.value ELSE JObject(FallbackContent)

\* Whether the subscripts content["title"], ... of create_daily_lesson succeed
\* (they raise TypeError on a non-dict and KeyError on a missing key).
SubscriptsSucceed(content) ==
    content.kind = "object" /\ ContentKeys \subseteq DOMAIN content.obj

(***************************************************************************)
(* goalgrid_agent.py: the store helpers.                                   *)
(***************************************************************************)
\* sorted(docs, key=lambda d: d.create_time, reverse=True)[0]
LatestDoc(courses) ==
    CHOOSE i \in 1..Len(courses) :
        \A j \in 1..Len(courses) : courses[j].create_time <= courses[i].create_time

\* save_course([]): the collection with a new document, created at `day`.
save_course(courses, day) ==
    Append(courses,
           [create_time |-> Len(courses) + 1,
            data |-> [content |-> [joined_date |-> day, lessons_by_date |-> EmptyDict]]])

\* get_active_course with the bug of never looking for an existing document.
get_active_course_no_stream(courses, active) ==
    IF active # 0
    THEN [raised |-> active > Len(courses),
          content |-> IF active > Len(courses) THEN EmptyDict
                      ELSE DictGet(courses[active].data, "content", EmptyDict),
          active |-> active, courses |-> courses]
    ELSE [raised |-> FALSE, content |-> EmptyDict, active |-> 0, courses |-> courses]

\* get_active_course with the bug of creating the document it does not find
\* (as get_user_data does for the user record).
get_active_course_create(courses, active) ==
    IF active # 0
    THEN [raised |-> active > Len(courses),
          content |-> IF active > Len(courses) THEN EmptyDict
                      ELSE DictGet(courses[active].data, "content", EmptyDict),
          active |-> active, courses |-> courses]
    ELSE IF courses = <<>>
    THEN [raised |-> FALSE,
          content |-> [joined_date |-> "", lessons_by_date |-> EmptyDict],
          active |-> 1, courses |-> save_course(courses, "")]
    ELSE [raised |-> FALSE,
          content |-> DictGet(courses[LatestDoc(courses)].data, "content", EmptyDict),
          active |-> LatestDoc(courses), courses |-> courses]

\* get_active_course, run by an agent whose active_course_doc is `active`:
\* the content it returns, the agent's active_course_doc and the collection
\* afterwards, and whether it raised.
get_active_course(courses, active) ==
    IF active # 0
    THEN [raised |-> active > Len(courses),
          content |-> IF active > Len(courses) THEN EmptyDict
                      ELSE DictGet(courses[active].data, "content", EmptyDict),
          active |-> active, courses |-> courses]
    ELSE IF courses = <<>>
    THEN [raised |-> FALSE, content |-> EmptyDict, active |-> 0, courses |-> courses]
    ELSE [raised |-> FALSE,
          content |-> DictGet(courses[LatestDoc(courses)].data, "content", EmptyDict),
          active |-> LatestDoc(courses), courses |-> courses]

\* lessons.get(date)
LessonsGet(lessons, date) == [raised |-> FALSE, value |-> DictGet(lessons, date, None)]

\* The tail of update_course_content: content = get_active_course();
\* content["lessons_by_date"] = lessons_by_date; active_course_doc.set(...).
set_course_content(courses, active, lessons_by_date) ==
    LET content == get_active_course(courses, active).content
    IN  [courses EXCEPT ![active].data =
            [content |-> DictSet(content, "lessons_by_date", lessons_by_date)]]

\* Python truthiness of a lesson entry (None and {} are falsy).
Falsy(lesson_data) == lesson_data = None \/ DOMAIN lesson_data = {}

(***************************************************************************)
(* goalgrid_agent.py: task generation.                                     *)
(***************************************************************************)
\* The Task objects of generate_tasks_for_lesson.
StepTasks(title, num_tasks) ==
    [i \in 1..num_tasks |->
        Task("Step " \o ToStr(i),
             "Complete step " \o ToStr(i) \o " for '" \o title \o "'")]

\* What a for loop over a parsed value iterates over: [ok, items]; ok = FALSE
\* is the TypeError of a value that is not iterable.  A dict yields its keys
\* and a str its characters, str objects either way.
Iterate(value) ==
    CASE value.kind = "array" -> [ok |-> TRUE, items |-> value.arr]
      [] value.kind = "object" ->
            [ok |-> TRUE,
             items |-> IF DOMAIN value.obj = {} THEN <<>> ELSE <<JString("key")>>]
      [] value.kind = "string" ->
            [ok |-> TRUE,
             items |-> IF value.obj["value"] = "" THEN <<>> ELSE <<JString("c")>>]
      [] OTHER -> [ok |-> FALSE, items |-> <<>>]

\* The try block of regenerate_tasks_with_ai from the completion on:
\* [ok, tasks]; ok = FALSE when anything in it raised.
UpdatedTasks(resp) ==
    IF resp.raised THEN [ok |-> FALSE, tasks |-> <<>>]
    ELSE LET parsed == JsonLoads(StripFences(resp.content))
             it == Iterate(parsed.value)
         IN  IF ~parsed.ok \/ ~it.ok \/ \E i \in 1..Len(it.items) : it.items[i].kind # "object"
             THEN [ok |-> FALSE, tasks |-> <<>>]
             ELSE [ok |-> TRUE,
                   tasks |-> [i \in 1..Len(it.items) |->
                        TaskToDict(Task(
                            DictGet(it.items[i].obj, "title", "Step " \o ToStr(i)),
                            DictGet(it.items[i].obj, "description",
                                    "Complete step " \o ToStr(i))))]]

(***************************************************************************)
(* goalgrid_agent.py: the handlers, one action per store round trip.       *)
(***************************************************************************)
\* A handler's locals: its name, its date, its num_tasks argument, the
\* lessons_by_date it is about to write, and so on.
NoFrame ==
    [op |-> "", date |-> "", num_tasks |-> 0, lessons |-> EmptyDict,
     lesson_data |-> None, lesson |-> None, tasks |-> <<>>, resp |-> NoResponse,
     store_error |-> FALSE]
\* What the caller sees of a call: the handler and its arguments, whether it
\* raised, and the value it returned (a bool, a Lesson or dict, a list).
NoReturn ==
    [op |-> "", date |-> "", num_tasks |-> 0, raised |-> FALSE, ok |-> FALSE,
     lesson |-> None, tasks |-> <<>>]
Return(op, date, raised, ok, lesson, tasks) ==
    [op |-> op, date |-> date, num_tasks |-> 0, raised |-> raised, ok |-> ok,
     lesson |-> lesson, tasks |-> tasks]

\* The handler of agent a returns r.
Returns(a, r) ==
    /\ pc' = [pc EXCEPT ![a] = "return"]
    /\ frame' = [frame EXCEPT ![a] = NoFrame]
    /\ ret' = [ret EXCEPT ![a] = r]

\* The handler of agent a returns r, having received the completion resp.
ReturnsAfter(a, r, resp) ==
    /\ pc' = [pc EXCEPT ![a] = "return"]
    /\ frame' = [frame EXCEPT ![a] = [NoFrame EXCEPT !.resp = resp]]
    /\ ret' = [ret EXCEPT ![a] = r]

\* What the handler in frame f returns once update_course_content is done.
HandlerReturn(f) ==
    CASE f.op = "create_daily_lesson" ->
            Return(f.op, f.date, FALSE, TRUE, f.lesson, <<>>)
      [] f.op = "generate_tasks_for_lesson" ->
            [Return(f.op, f.date, FALSE, TRUE, None, f.tasks)
                EXCEPT !.num_tasks = f.num_tasks]
      [] OTHER -> Return(f.op, f.date, FALSE, TRUE, None, <<>>)

\* update_course_content(f.lessons) from its start: without an active
\* document it first creates one (save_course([])) and writes in a second
\* round trip; with one it writes and the handler returns.
update_course_content(a, f) ==
    IF active_course_doc[a] = 0
    THEN /\ dated_courses' = save_course(dated_courses, today)
         /\ active_course_doc' = [active_course_doc EXCEPT ![a] = Len(dated_courses) + 1]
         /\ pc' = [pc EXCEPT ![a] = "update_course_content_set"]
         /\ frame' = [frame EXCEPT ![a] = f]
         /\ UNCHANGED <<ret, lesson_obj>>
    ELSE /\ dated_courses' = set_course_content(dated_courses, active_course_doc[a], f.lessons)
         /\ ReturnsAfter(a, HandlerReturn(f), f.resp)
         /\ UNCHANGED <<active_course_doc, lesson_obj>>

\* GoalGridAgent(user_id): the caller replaces its agent by a fresh instance.
NewAgent(a) ==
    /\ pc[a] = "idle"
    /\ active_course_doc[a] # 0
    /\ active_course_doc' = [active_course_doc EXCEPT ![a] = 0]
    /\ UNCHANGED <<today, dated_courses, lesson_obj, pc, frame, ret, app_vars>>

\* create_daily_lesson up to its read of the course.
create_daily_lesson(a) ==
    /\ pc[a] = "idle"
    /\ \E resp \in LessonResponses :
        LET today_str == today
            content == generate_personalized_content(resp)
        IN  IF ~SubscriptsSucceed(content)
            THEN /\ Returns(a, Return("create_daily_lesson", today_str, TRUE, FALSE, None, <<>>))
                 /\ UNCHANGED <<dated_courses, active_course_doc, lesson_obj>>
            ELSE LET lesson == Lesson(today_str, content.obj, <<>>)
                     r == get_active_course(dated_courses, active_course_doc[a])
                     lessons == DictGet(r.content, "lessons_by_date", EmptyDict)
                 IN  /\ dated_courses' = r.courses
                     /\ active_course_doc' = [active_course_doc EXCEPT ![a] = r.active]
                     /\ frame' = [frame EXCEPT ![a] =
                            [NoFrame EXCEPT !.op = "create_daily_lesson",
                                            !.date = today_str,
                                            !.lesson = lesson,
                                            !.lessons = DictSet(lessons, today_str, LessonToDict(lesson))]]
                     /\ pc' = [pc EXCEPT ![a] = "update_course_content"]
                     /\ UNCHANGED <<ret, lesson_obj>>
    /\ UNCHANGED <<today, app_vars>>

\* generate_tasks_for_lesson(lesson_obj, num_tasks) up to its read of the course.
generate_tasks_for_lesson(a, num_tasks) ==
    /\ pc[a] = "idle"
    /\ lesson_obj # None
    /\ Len(lesson_obj.tasks) + num_tasks <= MaxTasks
    /\ LET tasks == StepTasks(lesson_obj.title, num_tasks)
           lesson == [lesson_obj EXCEPT !.tasks =
                        @ \o [i \in 1..num_tasks |-> TaskToDict(tasks[i])]]
           r == get_active_course(dated_courses, active_course_doc[a])
           lessons == DictGet(r.content, "lessons_by_date", EmptyDict)
       IN  /\ lesson_obj' = lesson
           /\ dated_courses' = r.courses
           /\ active_course_doc' = [active_course_doc EXCEPT ![a] = r.active]
           /\ frame' = [frame EXCEPT ![a] =
                  [NoFrame EXCEPT !.op = "generate_tasks_for_lesson",
                                  !.date = lesson.date,
                                  !.num_tasks = num_tasks,
                                  !.tasks = tasks,
                                  !.lessons = DictSet(lessons, lesson.date, LessonToDict(lesson))]]
           /\ pc' = [pc EXCEPT ![a] = "update_course_content"]
    /\ UNCHANGED <<today, ret, app_vars>>

\* update_course_content as called by create_daily_lesson and
\* generate_tasks_for_lesson.
update_course(a) ==
    /\ pc[a] = "update_course_content"
    /\ update_course_content(a, frame[a])
    /\ UNCHANGED <<today, app_vars>>

\* The write of update_course_content after it created the document.
update_course_content_set(a) ==
    /\ pc[a] = "update_course_content_set"
    /\ dated_courses' = set_course_content(dated_courses, active_course_doc[a], frame[a].lessons)
    /\ ReturnsAfter(a, HandlerReturn(frame[a]), frame[a].resp)
    /\ UNCHANGED <<today, active_course_doc, lesson_obj, app_vars>>

\* regenerate_tasks_with_ai(date) up to its request to the oracle.
regenerate_tasks_with_ai(a, date) ==
    /\ pc[a] = "idle"
    /\ LET r == get_active_course(dated_courses, active_course_doc[a])
           lessons == DictGet(r.content, "lessons_by_date", EmptyDict)
           lesson_data == DictGet(lessons, date, None)
       IN  /\ dated_courses' = r.courses
           /\ active_course_doc' = [active_course_doc EXCEPT ![a] = r.active]
           /\ IF Falsy(lesson_data) \/ DictGet(lesson_data, "tasks", <<>>) = <<>>
              THEN Returns(a, Return("regenerate_tasks_with_ai", date, FALSE, FALSE, None, <<>>))
              ELSE /\ frame' = [frame EXCEPT ![a] =
                            [NoFrame EXCEPT !.op = "regenerate_tasks_with_ai",
                                            !.date = date,
                                            !.lessons = lessons,
                                            !.lesson_data = lesson_data]]
                   /\ pc' = [pc EXCEPT ![a] = "regenerate_tasks"]
                   /\ UNCHANGED ret
    /\ UNCHANGED <<today, lesson_obj, app_vars>>

\* regenerate_tasks_with_ai from the completion on: parse it, build the
\* tasks, update_course_content.
regenerate_tasks(a) ==
    /\ pc[a] = "regenerate_tasks"
    /\ \E resp \in TaskResponses :
        LET f == frame[a]
            updated == UpdatedTasks(resp)
            lesson_data == [f.lesson_data EXCEPT !.tasks = updated.tasks]
        IN  IF ~updated.ok
            THEN /\ ReturnsAfter(a, Return(f.op, f.date, FALSE, FALSE, None, <<>>), resp)
                 /\ UNCHANGED <<dated_courses, active_course_doc, lesson_obj>>
            ELSE update_course_content(a,
                     [f EXCEPT !.lessons = DictSet(f.lessons, f.date, lesson_data),
                               !.resp = resp])
    /\ UNCHANGED <<today, app_vars>>

\* get_lesson(date)
get_lesson(a, date) ==
    /\ pc[a] = "idle"
    /\ LET r == get_active_course(dated_courses, active_course_doc[a])
           found == LessonsGet(DictGet(r.content, "lessons_by_date", EmptyDict), date)
       IN  /\ dated_courses' = r.courses
           /\ active_course_doc' = [active_course_doc EXCEPT ![a] = r.active]
           /\ Returns(a, Return("get_lesson", date, r.raised \/ found.raised, TRUE,
                                found.value, <<>>))
    /\ UNCHANGED <<today, lesson_obj, app_vars>>

\* get_todays_tasks()
get_todays_tasks(a) ==
    /\ pc[a] = "idle"
    /\ LET today_str == today
           r == get_active_course(dated_courses, active_course_doc[a])
           found == LessonsGet(DictGet(r.content, "lessons_by_date", EmptyDict), today_str)
       IN  /\ dated_courses' = r.courses
           /\ active_course_doc' = [active_course_doc EXCEPT ![a] = r.active]
           /\ Returns(a, Return("get_todays_tasks", today_str, r.raised \/ found.raised, TRUE,
                                None,
                                IF Falsy(found.value) THEN <<>>
                                ELSE DictGet(found.value, "tasks", <<>>)))
    /\ UNCHANGED <<today, lesson_obj, app_vars>>

\* The caller receives what the handler of agent a returned; it keeps the
\* Lesson create_daily_lesson returned, or goes on holding the one it has.
Deliver(a) ==
    /\ pc[a] = "return"
    /\ pc' = [pc EXCEPT ![a] = "idle"]
    /\ frame' = [frame EXCEPT ![a] = NoFrame]
    /\ ret' = [ret EXCEPT ![a] = NoReturn]
    /\ \/ /\ ret[a].op = "create_daily_lesson" /\ ~ret[a].raised
          /\ lesson_obj' = ret[a].lesson
       \/ UNCHANGED lesson_obj
    /\ UNCHANGED <<today, dated_courses, active_course_doc, app_vars>>

\* The calendar date changes.
Tick ==
    /\ NextDay(today) # today
    /\ today' = NextDay(today)
    /\ UNCHANGED <<requests, agent_vars, app_vars>>

\* Agent a's caller calls a handler.
AgentCall(a) ==
    \/ create_daily_lesson(a)
    \/ \E n \in 1..MaxTasks : generate_tasks_for_lesson(a, n)
    \/ \E d \in Dates : regenerate_tasks_with_ai(a, d)
    \/ \E d \in Dates : get_lesson(a, d)
    \/ get_todays_tasks(a)

\* Agent a's handler goes on, or its caller replaces the agent.
AgentContinue(a) ==
    \/ NewAgent(a)
    \/ update_course(a)
    \/ update_course_content_set(a)
    \/ regenerate_tasks(a)
    \/ Deliver(a)

(***************************************************************************)
(* goalgrid_agent.py: the store is unavailable. Any call to the store may  *)
(* raise; the exception leaves the handler unless a try block catches it.  *)
(***************************************************************************)
\* The handler of agent a ends with the exception of a failed store call.
StoreRaises(a, op, date) ==
    /\ pc' = [pc EXCEPT ![a] = "return"]
    /\ frame' = [frame EXCEPT ![a] = [NoFrame EXCEPT !.store_error = TRUE]]
    /\ ret' = [ret EXCEPT ![a] = Return(op, date, TRUE, FALSE, None, <<>>)]

\* create_daily_lesson: get_active_course raises once the Lesson is built.
create_daily_lesson_unavailable(a) ==
    /\ pc[a] = "idle"
    /\ \E resp \in LessonResponses :
          SubscriptsSucceed(generate_personalized_content(resp))
    /\ StoreRaises(a, "create_daily_lesson", today)
    /\ UNCHANGED <<today, dated_courses, active_course_doc, lesson_obj, app_vars>>

\* generate_tasks_for_lesson: get_active_course raises after the tasks were
\* appended to the caller's Lesson.
generate_tasks_for_lesson_unavailable(a, num_tasks) ==
    /\ pc[a] = "idle"
    /\ lesson_obj # None
    /\ Len(lesson_obj.tasks) + num_tasks <= MaxTasks
    /\ LET tasks == StepTasks(lesson_obj.title, num_tasks)
       IN  lesson_obj' = [lesson_obj EXCEPT !.tasks =
                            @ \o [i \in 1..num_tasks |-> TaskToDict(tasks[i])]]
    /\ StoreRaises(a, "generate_tasks_for_lesson", lesson_obj.date)
    /\ UNCHANGED <<today, dated_courses, active_course_doc, app_vars>>

\* update_course_content as called by create_daily_lesson and
\* generate_tasks_for_lesson: save_course, get_active_course or set raises.
update_course_unavailable(a) ==
    /\ pc[a] \in {"update_course_content", "update_course_content_set"}
    /\ StoreRaises(a, frame[a].op, frame[a].date)
    /\ UNCHANGED <<today, dated_courses, active_course_doc, lesson_obj, app_vars>>

\* regenerate_tasks_with_ai: get_active_course, before the try block, raises.
regenerate_tasks_with_ai_unavailable(a, date) ==
    /\ pc[a] = "idle"
    /\ StoreRaises(a, "regenerate_tasks_with_ai", date)
    /\ UNCHANGED <<today, dated_courses, active_course_doc, lesson_obj, app_vars>>

\* regenerate_tasks_with_ai: update_course_content, inside the try block,
\* raises after a completion that parsed; except Exception returns False.
regenerate_tasks_unavailable(a) ==
    /\ pc[a] = "regenerate_tasks"
    /\ \E resp \in TaskResponses :
        /\ UpdatedTasks(resp).ok
        /\ pc' = [pc EXCEPT ![a] = "return"]
        /\ frame' = [frame EXCEPT ![a] =
                        [NoFrame EXCEPT !.resp = resp, !.store_error = TRUE]]
        /\ ret' = [ret EXCEPT ![a] =
                        Return(frame[a].op, frame[a].date, FALSE, FALSE, None, <<>>)]
    /\ UNCHANGED <<today, dated_courses, active_course_doc, lesson_obj, app_vars>>

\* get_lesson: get_active_course raises.
get_lesson_unavailable(a, date) ==
    /\ pc[a] = "idle"
    /\ StoreRaises(a, "get_lesson", date)
    /\ UNCHANGED <<today, dated_courses, active_course_doc, lesson_obj, app_vars>>

\* get_todays_tasks: get_active_course raises.
get_todays_tasks_unavailable(a) ==
    /\ pc[a] = "idle"
    /\ StoreRaises(a, "get_todays_tasks", today)
    /\ UNCHANGED <<today, dated_courses, active_course_doc, lesson_obj, app_vars>>

\* A store call of agent a's handler fails.
StoreFails(a) ==
    \/ create_daily_lesson_unavailable(a)
    \/ \E n \in 1..MaxTasks : generate_tasks_for_lesson_unavailable(a, n)
    \/ update_course_unavailable(a)
    \/ \E d \in Dates : regenerate_tasks_with_ai_unavailable(a, d)
    \/ regenerate_tasks_unavailable(a)
    \/ \E d \in Dates : get_lesson_unavailable(a, d)
    \/ get_todays_tasks_unavailable(a)

InitAgent ==
    /\ dated_courses = <<>>
    /\ active_course_doc = [a \in Agents |-> 0]
    /\ lesson_obj = None
    /\ pc = [a \in Agents |-> "idle"]
    /\ frame = [a \in Agents |-> NoFrame]
    /\ ret = [a \in Agents |-> NoReturn]

(***************************************************************************)
(* app.py: GoalGridAgent over users/<uid>/datedcourses.  app.py creates    *)
(* no document: the collection is what the course generator left there.    *)
(***************************************************************************)
\* _get_lessons: the documents' lessons_by_date merged in stream order.
RECURSIVE MergeLessons(_, _)
MergeLessons(docs, lessons_by_date) ==
    IF docs = <<>> THEN lessons_by_date
    ELSE MergeLessons(Tail(docs),
            IF "lessons_by_date" \in DOMAIN Head(docs)
            THEN DictUpdate(lessons_by_date, Head(docs)["lessons_by_date"])
            ELSE lessons_by_date)
get_lessons(docs) == MergeLessons(docs, EmptyDict)

\* A stored task is a dict {"task": {"task": text}, "done": ...} or a plain
\* str, which the model writes [str |-> text].
IsDict(t) == "str" \notin DOMAIN t

\* `not lesson_data or not lesson_data.get("tasks")`
NoTasks(lesson_data) == Falsy(lesson_data) \/ DictGet(lesson_data, "tasks", <<>>) = <<>>

\* The list get_todays_tasks (app.py) builds from the stored tasks.
TaskTexts(tasks_list) ==
    [i \in 1..Len(tasks_list) |->
        IF IsDict(tasks_list[i])
        THEN DictGet(DictGet(tasks_list[i], "task", EmptyDict), "task", "")
        ELSE tasks_list[i].str]

\* The try block of regenerate_tasks_with_ai (app.py) from the completion to
\* updated_tasks: [ok, tasks]; ok = FALSE when anything in it raised.
AppUpdatedTasks(resp) ==
    IF resp.raised THEN [ok |-> FALSE, tasks |-> <<>>]
    ELSE LET parsed == JsonLoads(StripFences(resp.content))
             it == Iterate(parsed.value)
         IN  IF ~parsed.ok \/ ~it.ok \/ \E i \in 1..Len(it.items) : it.items[i].kind # "object"
             THEN [ok |-> FALSE, tasks |-> <<>>]
             ELSE [ok |-> TRUE,
                   tasks |-> [i \in 1..Len(it.items) |->
                        [task |-> [task |-> DictGet(it.items[i].obj, "title",
                                        DictGet(it.items[i].obj, "description", ""))],
                         done |-> FALSE]]]

\* doc_ref.update({"lessons_by_date." + date: lesson_data}) on docs[0].
update_first_doc(docs, date, lesson_data) ==
    [docs EXCEPT ![1] =
        DictSet(@, "lessons_by_date",
                DictSet(DictGet(@, "lessons_by_date", EmptyDict), date, lesson_data))]

AppReturns(r, v, resp) ==
    /\ app_pc' = [app_pc EXCEPT ![r] = "return"]
    /\ app_frame' = [app_frame EXCEPT ![r] = [NoFrame EXCEPT !.resp = resp]]
    /\ app_ret' = [app_ret EXCEPT ![r] = v]

\* What get_todays_tasks(date) (app.py) returns from these documents.
TodaysTasks(docs, date) ==
    LET lesson_data == DictGet(get_lessons(docs), date, None)
    IN  IF NoTasks(lesson_data) THEN <<>> ELSE TaskTexts(lesson_data.tasks)

\* get_todays_tasks(date); date = "" stands for None.
app_get_todays_tasks(r, date_arg) ==
    /\ app_pc[r] = "idle"
    /\ LET date == IF date_arg = "" THEN today ELSE date_arg
       IN  AppReturns(r, Return("get_todays_tasks", date, FALSE, TRUE, None,
                                TodaysTasks(datedcourses, date)),
                      NoResponse)
    /\ UNCHANGED <<today, requests, datedcourses, agent_vars>>

\* regenerate_tasks_with_ai(instructions, date) up to its request to the oracle.
app_regenerate_tasks_with_ai(r, date_arg) ==
    /\ app_pc[r] = "idle"
    /\ LET lessons == get_lessons(datedcourses)
           date == IF date_arg = "" THEN today ELSE date_arg
           lesson_data == DictGet(lessons, date, None)
       IN  IF NoTasks(lesson_data)
           THEN AppReturns(r, Return("regenerate_tasks_with_ai", date, FALSE, FALSE, None, <<>>),
                           NoResponse)
           ELSE /\ app_frame' = [app_frame EXCEPT ![r] =
                        [NoFrame EXCEPT !.op = "regenerate_tasks_with_ai",
                                        !.date = date,
                                        !.lesson_data = lesson_data]]
                /\ app_pc' = [app_pc EXCEPT ![r] = "regenerate_tasks"]
                /\ UNCHANGED app_ret
    /\ UNCHANGED <<today, requests, datedcourses, agent_vars>>

\* regenerate_tasks_with_ai from the completion on: parse it, build the
\* tasks, update the first document of the collection.
app_regenerate_tasks(r) ==
    /\ app_pc[r] = "regenerate_tasks"
    /\ \E resp \in TaskResponses :
        LET f == app_frame[r]
            malformed == \E i \in 1..Len(f.lesson_data.tasks) :
                            /\ IsDict(f.lesson_data.tasks[i])
                            /\ "task" \notin DOMAIN f.lesson_data.tasks[i]
            updated == AppUpdatedTasks(resp)
        IN  IF malformed \/ ~updated.ok \/ datedcourses = <<>>
            THEN /\ AppReturns(r, Return(f.op, f.date, FALSE, FALSE, None, <<>>), resp)
                 /\ UNCHANGED datedcourses
            ELSE /\ datedcourses' = update_first_doc(datedcourses, f.date,
                                        [f.lesson_data EXCEPT !.tasks = updated.tasks])
                 /\ AppReturns(r, Return(f.op, f.date, FALSE, TRUE, None, updated.tasks), resp)
    /\ UNCHANGED <<today, requests, agent_vars>>

\* The HTTP client receives the answer; the request slot is free again.
AppDeliver(r) ==
    /\ app_pc[r] = "return"
    /\ app_pc' = [app_pc EXCEPT ![r] = "idle"]
    /\ app_frame' = [app_frame EXCEPT ![r] = NoFrame]
    /\ app_ret' = [app_ret EXCEPT ![r] = NoReturn]
    /\ UNCHANGED <<today, requests, datedcourses, agent_vars>>

AppStep(r) ==
    \/ \E d \in Dates \cup {""} : app_get_todays_tasks(r, d)
    \/ \E d \in Dates \cup {""} : app_regenerate_tasks_with_ai(r, d)
    \/ app_regenerate_tasks(r)
    \/ AppDeliver(r)

\* The lesson entries the course generator stores: the Focus lesson without
\* tasks, or with a dict task and a str task.
GeneratorLessons ==
    {[LessonToDict(Lesson("", FocusLesson, <<>>)) EXCEPT !.tasks = ts] :
        ts \in {<<>>, <<[task |-> [task |-> "Read one page"], done |-> FALSE],
                        [str |-> "Walk"]>>}}

\* A collection of n documents holding the lessons `placed` puts there: per
\* date, no lesson (document 0) or a lesson in one document.
CollectionOf(n, placed) ==
    [i \in 1..n |->
        LET mine == {d \in Dates : placed[d].doc = i}
        IN  IF mine = {} THEN EmptyDict
            ELSE [k \in {"lessons_by_date"} |-> [d \in mine |-> placed[d].lesson]]]

\* The collections app.py starts from: every date is in at most one document.
AppCollections ==
    UNION {{CollectionOf(n, placed) :
                placed \in [Dates -> [doc : 0..n, lesson : GeneratorLessons]]} :
           n \in 0..MaxDocs}

InitApp ==
    /\ datedcourses \in AppCollections
    /\ app_pc = [r \in Requests |-> "idle"]
    /\ app_frame = [r \in Requests |-> NoFrame]
    /\ app_ret = [r \in Requests |-> NoReturn]

\* goalgrid_agent.py running; app.py's collection stays empty.
InitAgentOnly ==
    /\ today = FirstDay /\ requests = 0 /\ InitAgent
    /\ InitApp /\ datedcourses = <<>>

\* app.py running; goalgrid_agent.py's collection stays empty.
InitAppOnly == today = FirstDay /\ requests = 0 /\ InitAgent /\ InitApp

\* Up to MaxRequests calls by the agents, interleaved at store round trips.
NextAgent ==
    \/ Tick
    \/ \E a \in Agents :
        \/ requests < MaxRequests /\ requests' = requests + 1 /\ AgentCall(a)
        \/ AgentContinue(a) /\ UNCHANGED requests
SpecAgent == InitAgentOnly /\ [][NextAgent]_vars

\* Any number of calls served one after the other: a handler runs to its
\* return before another agent's handler starts.
NextSerial ==
    \/ Tick
    \/ \E a \in Agents :
        /\ \A b \in Agents \ {a} : pc[b] = "idle"
        /\ AgentCall(a) \/ AgentContinue(a)
        /\ UNCHANGED requests
SpecSerial == InitAgentOnly /\ [][NextSerial]_vars

\* Calls served one after the other while the store may be unavailable at
\* any of its calls.
NextFaulty ==
    \/ Tick
    \/ \E a \in Agents :
        /\ \A b \in Agents \ {a} : pc[b] = "idle"
        /\ AgentCall(a) \/ AgentContinue(a) \/ StoreFails(a)
        /\ UNCHANGED requests
SpecFaulty == InitAgentOnly /\ [][NextFaulty]_vars

\* Requests to app.py, interleaved at store round trips.
NextApp == (Tick /\ UNCHANGED requests) \/ \E r \in Requests : AppStep(r)
SpecApp == InitAppOnly /\ [][NextApp]_vars

(***************************************************************************)
(* What the claims speak of.                                               *)
(***************************************************************************)
\* The lessons_by_date of document i of dated_courses.
LessonsOf(courses, i) ==
    DictGet(DictGet(courses[i].data, "content", EmptyDict), "lessons_by_date", EmptyDict)

\* The documents of dated_courses holding a lesson for date d.
HoldersOf(courses, d) == {i \in 1..Len(courses) : d \in DOMAIN LessonsOf(courses, i)}

\* What a read of date d by an agent with this active document returns.
ReadLesson(courses, active, d) ==
    DictGet(DictGet(get_active_course(courses, active).content, "lessons_by_date", EmptyDict),
            d, None)

\* The title, body, summary, ... of a lesson entry: all but its tasks.
NonTaskFields(lesson_data) == [k \in ContentKeys |-> lesson_data[k]]

\* Agent a's handler op returns in this step.
Completes(a, op) == pc[a] # "return" /\ pc'[a] = "return" /\ ret'[a].op = op

\* The oracle step failed: the call raised, the text is no JSON, or the
\* parsed value is no list of objects.
IsListOfObjects(value) ==
    value.kind = "array" /\ \A i \in 1..Len(value.arr) : value.arr[i].kind = "object"
OracleFailed(resp) ==
    \/ resp.raised
    \/ ~JsonLoads(StripFences(resp.content)).ok
    \/ ~IsListOfObjects(JsonLoads(StripFences(resp.content)).value)

\* C1: a task-writing operation on (user, date) -- generate_tasks_for_lesson,
\* or regenerate_tasks_with_ai returning true -- leaves every non-task field
\* of the stored lesson as it was stored immediately before the operation.
C1_MergeInvariant ==
    [][\A a \in Agents :
        (Completes(a, "generate_tasks_for_lesson") \/ Completes(a, "regenerate_tasks_with_ai"))
        /\ ret'[a].ok
        /\ ReadLesson(dated_courses, active_course_doc[a], ret'[a].date) # None
        => NonTaskFields(ReadLesson(dated_courses', active_course_doc'[a], ret'[a].date))
           = NonTaskFields(ReadLesson(dated_courses, active_course_doc[a], ret'[a].date))]_vars

\* C2: when the oracle step of regenerate_tasks_with_ai fails, the call
\* returns false and the stored documents are what they were.
C2_RegenerationAtomicity ==
    [][\A a \in Agents :
        pc[a] = "regenerate_tasks" /\ pc'[a] # "regenerate_tasks"
        /\ OracleFailed(frame'[a].resp)
        => /\ pc'[a] = "return"
           /\ ~ret'[a].ok
           /\ dated_courses' = dated_courses]_vars

\* C3: when create_daily_lesson returns, exactly one document holds a lesson
\* for its date, that lesson has the fields of this (the latest) call, and the
\* lessons of every other date are what they were.
C3_CreateIdempotent ==
    [][\A a \in Agents :
        Completes(a, "create_daily_lesson") /\ ~ret'[a].raised
        => /\ Cardinality(HoldersOf(dated_courses', ret'[a].date)) = 1
           /\ \A i \in HoldersOf(dated_courses', ret'[a].date) :
                LessonsOf(dated_courses', i)[ret'[a].date] = LessonToDict(ret'[a].lesson)
           /\ \A d \in Dates \ {ret'[a].date} :
                /\ HoldersOf(dated_courses', d) = HoldersOf(dated_courses, d)
                /\ \A i \in HoldersOf(dated_courses, d) :
                    LessonsOf(dated_courses', i)[d] = LessonsOf(dated_courses, i)[d]]_vars

\* A second create_daily_lesson for a date returns with fields other than
\* those of the Lesson the caller holds from an earlier call for that date,
\* and another agent instance has a course document.
C3_Witness ==
    \E a \in Agents :
        /\ pc[a] = "return" /\ ret[a].op = "create_daily_lesson" /\ ~ret[a].raised
        /\ lesson_obj # None
        /\ lesson_obj.date = ret[a].date
        /\ lesson_obj.title # ret[a].lesson.title
        /\ \E b \in Agents \ {a} : active_course_doc[b] # 0
        /\ \E d \in Dates \ {ret[a].date} : HoldersOf(dated_courses, d) # {}

\* C4: the course documents together hold at most one lesson per date.
C4_OneLessonPerDate ==
    \A d \in Dates : Cardinality(HoldersOf(dated_courses, d)) <= 1

\* C5: whatever the oracle answers, create_daily_lesson returns without
\* raising, and every content field of the Lesson is non-empty.
C5_OracleFallback ==
    \A a \in Agents :
        pc[a] = "return" /\ ret[a].op = "create_daily_lesson"
        => /\ ~ret[a].raised
           /\ \A k \in ContentKeys : ret[a].lesson[k] # ""

\* C6: when regenerate_tasks_with_ai (app.py) returns true on a list of N
\* task objects, the next read of that date returns N tasks, the i-th carrying
\* the title of the i-th item, none completed and none of the old ones,
\* however the lessons are spread over the documents.
C6_RegenerationVisible ==
    [][\A r \in Requests :
        app_pc[r] = "regenerate_tasks" /\ app_pc'[r] = "return" /\ app_ret'[r].ok
        /\ ~OracleFailed(app_frame'[r].resp)
        => LET items == JsonLoads(StripFences(app_frame'[r].resp.content)).value.arr
               read == TodaysTasks(datedcourses', app_ret'[r].date)
               stored == DictGet(DictGet(get_lessons(datedcourses'), app_ret'[r].date,
                                         EmptyDict), "tasks", <<>>)
           IN  /\ Len(read) = Len(items)
               /\ \A i \in 1..Len(items) :
                    "title" \in DOMAIN items[i].obj => read[i] = items[i].obj["title"]
               /\ \A i \in 1..Len(stored) : DictGet(stored[i], "done", TRUE) = FALSE]_vars

\* C7: generate_tasks_for_lesson(lesson, count) returns count tasks titled
\* "Step 1", ..., none completed, and the stored task sequence of the lesson
\* is exactly these, whatever tasks the lesson held before.
C7_GenerateReplacesTasks ==
    [][\A a \in Agents :
        Completes(a, "generate_tasks_for_lesson")
        => LET n == ret'[a].num_tasks
               returned == ret'[a].tasks
               stored == ReadLesson(dated_courses', active_course_doc'[a], ret'[a].date).tasks
           IN  /\ Len(returned) = n
               /\ \A i \in 1..n :
                    returned[i].title = "Step " \o ToStr(i) /\ ~returned[i].done
               /\ Len(stored) = n
               /\ \A i \in 1..n : stored[i] = TaskToDict(returned[i])]_vars

\* C8: get_lesson and get_todays_tasks do not raise, leave the stored
\* documents as they are, and return None / [] when no document holds a
\* lesson for the date.
C8_ReadsTotalReadOnly ==
    [][\A a \in Agents :
        Completes(a, "get_lesson") \/ Completes(a, "get_todays_tasks")
        => /\ ~ret'[a].raised
           /\ dated_courses' = dated_courses
           /\ HoldersOf(dated_courses, ret'[a].date) = {}
                => ret'[a].lesson = None /\ ret'[a].tasks = <<>>]_vars

\* get_lesson has returned None to a user without any course document.
C8_Witness ==
    \E a \in Agents :
        /\ pc[a] = "return" /\ ret[a].op = "get_lesson"
        /\ ret[a].lesson = None
        /\ dated_courses = <<>>

\* C9: of two overlapping requests that write different dates, both writes
\* stay: a handler's write for its date leaves the lesson stored at every
\* other date as it is.
C9_NoClobbering ==
    [][\A a \in Agents :
        pc[a] # "return" /\ pc'[a] = "return" /\ dated_courses' # dated_courses
        => \A d \in Dates \ {ret'[a].date} :
            \A i \in HoldersOf(dated_courses, d) :
                /\ i \in HoldersOf(dated_courses', d)
                /\ LessonsOf(dated_courses', i)[d] = LessonsOf(dated_courses, i)[d]]_vars

\* C10: regenerate_tasks_with_ai on a lesson with tasks leaves it with
\* tasks, whatever it returns and whatever the oracle answered.
C10_RegenerateKeepsTasks ==
    [][\A a \in Agents :
        pc[a] = "regenerate_tasks" /\ pc'[a] = "return"
        => ReadLesson(dated_courses', active_course_doc'[a], ret'[a].date).tasks # <<>>]_vars

\* C11: when a store read or write fails during regenerate_tasks_with_ai,
\* get_lesson or create_daily_lesson, the caller gets an exception, not the
\* False / None it gets when the lesson is missing or the oracle's output is
\* unusable.
C11_StoreErrorSurfaced ==
    [][\A a \in Agents :
        /\ pc[a] # "return" /\ pc'[a] = "return"
        /\ frame'[a].store_error
        /\ ret'[a].op \in {"regenerate_tasks_with_ai", "get_lesson", "create_daily_lesson"}
        => ret'[a].raised]_vars

====
